---- MODULE Spec2Model ----
(***************************************************************************)
(* Model of src/lib/module-config.js: the dotenv bootstrap that runs when   *)
(* the module is first required, the EnvironmentVariables class and the     *)
(* singleton the module exports.                                            *)
(*                                                                          *)
(* JavaScript strings are sequences of one-character strings, so that       *)
(* toUpperCase, toLowerCase, split, parseFloat and JSON.parse are computed  *)
(* character by character.  JavaScript values are tagged records.           *)
(***************************************************************************)
EXTENDS Integers, Sequences, FiniteSets, TLC

VARIABLES
    pc,          \* position of the module's top-level code
    processEnv,  \* process.env: a function from the present keys to strings
    fs,          \* settings files on disk: path |-> sequence of assignments
    console,     \* what the top-level code wrote to console.log/console.error
    instance,    \* module.exports: NotConstructed, or [env |-> this.env]
    lastCall,    \* the latest method call made on the exported instance
    lastResult,  \* its completion: return or throw, the value, what it logged
    env0,        \* history: process.env before the module was required
    envExported, \* history: process.env when module.exports was assigned
    loadName,    \* history: the environment name the load step put in the path
    loadOutcome  \* history: how dotenv.config ended

vars == <<pc, processEnv, fs, console, instance, lastCall, lastResult,
          env0, envExported, loadName, loadOutcome>>

----------------------------------------------------------------------------
(* Bounds of the model *)

\* at most this many assignments in a settings file
MaxFileLen == 2

----------------------------------------------------------------------------
(* Strings *)

LowerLetters == <<"a","b","c","d","e","f","g","h","i","j","k","l","m",
                  "n","o","p","q","r","s","t","u","v","w","x","y","z">>

UpperLetters == <<"A","B","C","D","E","F","G","H","I","J","K","L","M",
                  "N","O","P","Q","R","S","T","U","V","W","X","Y","Z">>

Digits == <<"0","1","2","3","4","5","6","7","8","9">>

IndexOf(seq, c) == CHOOSE i \in 1..Len(seq) : seq[i] = c

IsIn(seq, c) == \E i \in 1..Len(seq) : seq[i] = c

UpperChar(c) == IF IsIn(LowerLetters, c) THEN UpperLetters[IndexOf(LowerLetters, c)] ELSE c

LowerChar(c) == IF IsIn(UpperLetters, c) THEN LowerLetters[IndexOf(UpperLetters, c)] ELSE c

\* String.prototype.toUpperCase
toUpperCase(s) == [i \in 1..Len(s) |-> UpperChar(s[i])]

\* String.prototype.toLowerCase
toLowerCase(s) == [i \in 1..Len(s) |-> LowerChar(s[i])]

IsDigit(c) == IsIn(Digits, c)

DigitValue(c) == IndexOf(Digits, c) - 1

\* does s continue with the characters of w from position i on
StartsAt(s, i, w) ==
    /\ i + Len(w) - 1 <= Len(s)
    /\ \A j \in 1..Len(w) : s[i + j - 1] = w[j]

\* the characters of s from position i to position j
Slice(s, i, j) == [k \in 1..(j - i + 1) |-> s[i + k - 1]]

----------------------------------------------------------------------------
(* JavaScript values *)

Undefined == [t |-> "undefined"]
Null == [t |-> "null"]
NaN == [t |-> "NaN"]
Str(s) == [t |-> "string", s |-> s]
Bool(b) == [t |-> "boolean", b |-> b]
Num(n) == [t |-> "number", n |-> n]
Arr(a) == [t |-> "array", a |-> a]
Obj(o) == [t |-> "object", o |-> o]

\* ToBoolean of the values `process.env[k] || defaultValue` meets
Truthy(v) ==
    CASE v.t = "string" -> v.s # <<>>
      [] v.t = "boolean" -> v.b
      [] v.t = "number" -> v.n # 0
      [] v.t \in {"undefined", "null", "NaN"} -> FALSE
      [] OTHER -> TRUE

\* a || b
Or(a, b) == IF Truthy(a) THEN a ELSE b

\* completions of a call
Return(v, logged) == [outcome |-> "return", value |-> v, logged |-> logged]
Throw(e, logged) == [outcome |-> "throw", value |-> e, logged |-> logged]

TypeError == [t |-> "error", name |-> "TypeError"]
\* new Error(`Environment variable '${propertyPath}' not found.`)
NotFoundError(propertyPath) == [t |-> "error", name |-> "Error", key |-> propertyPath]

----------------------------------------------------------------------------
(* Conversions the typed getters apply *)

RECURSIVE SkipSpaces(_, _)
\* the first position from i on that holds no white space
SkipSpaces(s, i) == IF i <= Len(s) /\ s[i] = " " THEN SkipSpaces(s, i + 1) ELSE i

RECURSIVE SkipDigits(_, _)
\* the first position from i on that holds no decimal digit
SkipDigits(s, i) == IF i <= Len(s) /\ IsDigit(s[i]) THEN SkipDigits(s, i + 1) ELSE i

RECURSIVE DecimalValue(_, _, _)
\* the number written by the digits s[i..j]
DecimalValue(s, i, j) ==
    IF j < i THEN 0 ELSE 10 * DecimalValue(s, i, j - 1) + DigitValue(s[j])

\* parseFloat: white space is skipped, then the longest prefix that is a decimal
\* literal is converted and what follows it is ignored; NaN when there is no
\* such prefix.  Fractions, exponents and "Infinity" are outside the strings
\* the model draws, so the literal is a sign and a run of digits.
parseFloat(s) ==
    LET i == SkipSpaces(s, 1)
        signed == i <= Len(s) /\ s[i] \in {"-", "+"}
        d == IF signed THEN i + 1 ELSE i
        e == SkipDigits(s, d)
        n == DecimalValue(s, d, e - 1)
    IN  IF e = d THEN NaN
        ELSE Num(IF signed /\ s[i] = "-" THEN 0 - n ELSE n)

RECURSIVE SplitFrom(_, _, _, _)
\* the pieces of s from position start on, scanning for sep from position i
SplitFrom(s, sep, start, i) ==
    IF i + Len(sep) - 1 > Len(s) THEN <<Str(Slice(s, start, Len(s)))>>
    ELSE IF StartsAt(s, i, sep)
         THEN <<Str(Slice(s, start, i - 1))>>
                  \o SplitFrom(s, sep, i + Len(sep), i + Len(sep))
         ELSE SplitFrom(s, sep, start, i + 1)

\* String.prototype.split with a string separator
split(s, sep) ==
    IF sep = <<>> THEN Arr([i \in 1..Len(s) |-> Str(<<s[i]>>)])
    ELSE Arr(SplitFrom(s, sep, 1, 1))

ParseFail == [ok |-> FALSE]
ParseOk(v, next) == [ok |-> TRUE, value |-> v, next |-> next]

RECURSIVE StringEnd(_, _)
\* the position of the quote that closes a JSON string whose text starts at i,
\* or Len(s) + 1 when there is none
StringEnd(s, i) == IF i <= Len(s) /\ s[i] # "\"" THEN StringEnd(s, i + 1) ELSE i

\* a JSON string literal at position i (s[i] is its opening quote)
ParseString(s, i) ==
    LET e == StringEnd(s, i + 1)
    IN  IF e > Len(s) THEN ParseFail ELSE ParseOk(Str(Slice(s, i + 1, e - 1)), e + 1)

\* a JSON number at position i: an optional minus sign, then 0 or a run of
\* digits that does not start with 0
ParseNumber(s, i) ==
    LET d == IF s[i] = "-" THEN i + 1 ELSE i
        e == SkipDigits(s, d)
        n == DecimalValue(s, d, e - 1)
    IN  IF e = d THEN ParseFail
        ELSE IF s[d] = "0" THEN ParseOk(Num(0), d + 1)
        ELSE ParseOk(Num(IF d > i THEN 0 - n ELSE n), e)

RECURSIVE ParseValue(_, _), ParseElements(_, _, _), ParseMembers(_, _, _)

\* a JSON value at position i0, after white space
ParseValue(s, i0) ==
    LET i == SkipSpaces(s, i0)
    IN  IF i > Len(s) THEN ParseFail
        ELSE IF StartsAt(s, i, <<"t","r","u","e">>) THEN ParseOk(Bool(TRUE), i + 4)
        ELSE IF StartsAt(s, i, <<"f","a","l","s","e">>) THEN ParseOk(Bool(FALSE), i + 5)
        ELSE IF StartsAt(s, i, <<"n","u","l","l">>) THEN ParseOk(Null, i + 4)
        ELSE IF s[i] = "\"" THEN ParseString(s, i)
        ELSE IF s[i] = "-" \/ IsDigit(s[i]) THEN ParseNumber(s, i)
        ELSE IF s[i] = "["
             THEN LET j == SkipSpaces(s, i + 1)
                  IN  IF j <= Len(s) /\ s[j] = "]" THEN ParseOk(Arr(<<>>), j + 1)
                      ELSE ParseElements(s, j, <<>>)
        ELSE IF s[i] = "{"
             THEN LET j == SkipSpaces(s, i + 1)
                  IN  IF j <= Len(s) /\ s[j] = "}" THEN ParseOk(Obj(<<>>), j + 1)
                      ELSE ParseMembers(s, j, <<>>)
        ELSE ParseFail

\* the elements of a JSON array from position i on, acc being those before
ParseElements(s, i, acc) ==
    LET v == ParseValue(s, i)
    IN  IF ~v.ok THEN ParseFail
        ELSE LET j == SkipSpaces(s, v.next)
             IN  IF j > Len(s) THEN ParseFail
                 ELSE IF s[j] = "," THEN ParseElements(s, j + 1, Append(acc, v.value))
                 ELSE IF s[j] = "]" THEN ParseOk(Arr(Append(acc, v.value)), j + 1)
                 ELSE ParseFail

\* the members of a JSON object from position i on, acc being those before;
\* a repeated name keeps its last value
ParseMembers(s, i, acc) ==
    IF i > Len(s) \/ s[i] # "\"" THEN ParseFail
    ELSE LET k == ParseString(s, i)
         IN  IF ~k.ok THEN ParseFail
             ELSE LET c == SkipSpaces(s, k.next)
                  IN  IF c > Len(s) \/ s[c] # ":" THEN ParseFail
                      ELSE LET v == ParseValue(s, c + 1)
                           IN  IF ~v.ok THEN ParseFail
                               ELSE LET j == SkipSpaces(s, v.next)
                                        o == (k.value.s :> v.value) @@ acc
                                    IN  IF j > Len(s) THEN ParseFail
                                        ELSE IF s[j] = ","
                                             THEN ParseMembers(s, SkipSpaces(s, j + 1), o)
                                        ELSE IF s[j] = "}" THEN ParseOk(Obj(o), j + 1)
                                        ELSE ParseFail

\* JSON.parse: [ok |-> TRUE, value |-> v], or [ok |-> FALSE] where it throws
\* SyntaxError.  Escapes, fractions and exponents are outside the strings the
\* model draws.
JSONParse(s) ==
    LET r == ParseValue(s, 1)
    IN  IF r.ok /\ SkipSpaces(s, r.next) > Len(s)
        THEN [ok |-> TRUE, value |-> r.value]
        ELSE ParseFail

----------------------------------------------------------------------------
(* Strings of the program and of its environment *)

NODE_ENV == <<"N","O","D","E","_","E","N","V">>
Development == <<"d","e","v","e","l","o","p","m","e","n","t">>
Production == <<"p","r","o","d","u","c","t","i","o","n">>
DotEnvDot == <<".","e","n","v",".">>

DEVELOPMENT_PORT == <<"D","E","V","E","L","O","P","M","E","N","T","_","P","O","R","T">>
PRODUCTION_PORT == <<"P","R","O","D","U","C","T","I","O","N","_","P","O","R","T">>
\* a variable whose name differs from DEVELOPMENT_PORT only in case
DEVELOPMENT_port == <<"D","E","V","E","L","O","P","M","E","N","T","_","p","o","r","t">>

sPort == <<"p","o","r","t">>
sFallback == <<"f","a","l","l","b","a","c","k">>
sTrue == <<"t","r","u","e">>
sTrueMixed == <<"T","r","u","E">>
sFalseMixed == <<"F","a","l","s","e">>
sOne == <<"1">>
sNo == <<"n","o">>
sYes == <<"y","e","s">>
s3000 == <<"3","0","0","0">>
s8080 == <<"8","0","8","0">>
s12ab == <<"1","2","a","b">>
sList == <<"a",";","b",";","c">>
sBadJson == <<"{","n","o","t"," ","v","a","l","i","d"," ","j","s","o","n">>
sObject == <<"{","\"","a","\"",":","1","}">>
sArray == <<"[","1",","," ","2","]">>
sComma == <<",">>
sSemicolon == <<";">>

----------------------------------------------------------------------------
(* process.env and the load step *)

\* process.env[k]
Lookup(penv, k) == IF k \in DOMAIN penv THEN Str(penv[k]) ELSE Undefined

\* process.env.NODE_ENV || "development"
SelectedEnv(penv) == Or(Lookup(penv, NODE_ENV), Str(Development))

\* `${process.cwd()}/.env.${name}`, relative to the working directory
EnvFile(name) == DotEnvDot \o name

\* dotenv's parse: the assignments of the file as an object; a name assigned
\* twice keeps its last value
DotenvParse(content) ==
    [k \in {content[i].key : i \in 1..Len(content)} |->
        LET last == CHOOSE i \in 1..Len(content) :
                        /\ content[i].key = k
                        /\ \A j \in (i + 1)..Len(content) : content[j].key # k
        IN  content[last].value]

\* dotenv's populate: without the override option a key process.env already
\* has keeps its value (also an empty one) and every other parsed key is
\* added; with it every parsed key is written
DotenvPopulate(penv, parsed, override) ==
    [k \in DOMAIN penv \cup DOMAIN parsed |->
        IF k \in DOMAIN parsed /\ (override \/ k \notin DOMAIN penv)
        THEN parsed[k] ELSE penv[k]]

\* How dotenv.config ends when the file cannot be read: the library reports
\* the failure in the object it returns; the catch clause of the module is for
\* a build of the library that throws instead.
DotenvFailureModes == {"returnsError", "throws"}

\* dotenv.config(options): process.env afterwards, and how the call ended
DotenvConfig(penv, files, options, mode) ==
    IF options.path \in DOMAIN files
    THEN [ended |-> "loaded",
          env |-> DotenvPopulate(penv, DotenvParse(files[options.path]), options.override)]
    ELSE [ended |-> mode, env |-> penv]

\* { path: envFile }
ConfigOptions(envFile) == [path |-> envFile, override |-> FALSE]

PathAnnouncement(name) == [level |-> "log", what |-> "path", path |-> EnvFile(name)]
LoadError == [level |-> "error", what |-> "Error loading environment variables:"]

\* lines 3-6: console.log of the path of the settings file
Announce ==
    /\ pc = "announce"
    /\ console' = Append(console, PathAnnouncement(SelectedEnv(processEnv).s))
    /\ pc' = "load"
    /\ UNCHANGED <<processEnv, fs, instance, lastCall, lastResult,
                   env0, envExported, loadName, loadOutcome>>

\* the load step passing override: true to dotenv.config
LoadEnvOverriding ==
    /\ pc = "load"
    /\ \E mode \in DotenvFailureModes :
          LET name == SelectedEnv(processEnv).s
              r == DotenvConfig(processEnv, fs,
                                [path |-> EnvFile(name), override |-> TRUE], mode)
          IN  /\ processEnv' = r.env
              /\ loadName' = name
              /\ loadOutcome' = r.ended
              /\ console' = IF r.ended = "throws" THEN Append(console, LoadError)
                            ELSE console
    /\ pc' = "construct"
    /\ UNCHANGED <<fs, instance, lastCall, lastResult, env0, envExported>>

\* the load step without its catch clause: a throw ends the module's evaluation
LoadEnvNoCatch ==
    /\ pc = "load"
    /\ \E mode \in DotenvFailureModes :
          LET name == SelectedEnv(processEnv).s
              r == DotenvConfig(processEnv, fs, ConfigOptions(EnvFile(name)), mode)
          IN  /\ processEnv' = r.env
              /\ loadName' = name
              /\ loadOutcome' = r.ended
              /\ pc' = IF r.ended = "throws" THEN "crashed" ELSE "construct"
    /\ UNCHANGED <<fs, console, instance, lastCall, lastResult, env0, envExported>>

\* lines 8-16: the try statement around dotenv.config
LoadEnv ==
    /\ pc = "load"
    /\ \E mode \in DotenvFailureModes :
          LET name == SelectedEnv(processEnv).s
              r == DotenvConfig(processEnv, fs, ConfigOptions(EnvFile(name)), mode)
          IN  /\ processEnv' = r.env
              /\ loadName' = name
              /\ loadOutcome' = r.ended
              /\ console' = IF r.ended = "throws" THEN Append(console, LoadError)
                            ELSE console
    /\ pc' = "construct"
    /\ UNCHANGED <<fs, instance, lastCall, lastResult, env0, envExported>>

----------------------------------------------------------------------------
(* class EnvironmentVariables *)

NotConstructed == [env |-> Undefined]

\* constructor(env)
EnvironmentVariables(env, penv) ==
    [env |-> Or(Or(env, Lookup(penv, NODE_ENV)), Str(Development))]

\* EnvKey with the requested key used as given
EnvKeyAsGiven(self, key) == toUpperCase(self.env.s) \o <<"_">> \o key.s

\* `${this.env.toUpperCase()}_${key.toUpperCase()}`
EnvKey(self, key) == toUpperCase(self.env.s) \o <<"_">> \o toUpperCase(key.s)

\* get falling back to the default only when the variable is not set
getNullish(self, penv, key, defaultValue) ==
    IF key.t # "string" THEN Throw(TypeError, <<>>)
    ELSE LET v == Lookup(penv, EnvKey(self, key))
         IN  Return(IF v # Undefined THEN v ELSE defaultValue, <<>>)

\* get(key, defaultValue): the key is upper-cased before the try statement,
\* so a key without toUpperCase throws TypeError; the property read inside the
\* try statement does not throw
get(self, penv, key, defaultValue) ==
    IF key.t # "string" THEN Throw(TypeError, <<>>)
    ELSE Return(Or(Lookup(penv, EnvKey(self, key)), defaultValue), <<>>)

\* String.prototype.toString
toString(v) == Str(v.s)

\* getString(key, defaultValue)
getString(self, penv, key, defaultValue) ==
    LET r == get(self, penv, key, Undefined)
    IN  IF r.outcome = "throw" THEN r
        ELSE Return(IF r.value # Undefined THEN toString(r.value) ELSE defaultValue,
                    r.logged)

\* getBoolean comparing the stored string itself with "true"
getBooleanExact(self, penv, key, defaultValue) ==
    LET r == getString(self, penv, key, Undefined)
    IN  IF r.outcome = "throw" THEN r
        ELSE Return(IF r.value # Undefined THEN Bool(r.value.s = sTrue) ELSE defaultValue,
                    r.logged)

\* getBoolean(key, defaultValue)
getBoolean(self, penv, key, defaultValue) ==
    LET r == getString(self, penv, key, Undefined)
    IN  IF r.outcome = "throw" THEN r
        ELSE Return(IF r.value # Undefined
                    THEN Bool(toLowerCase(r.value.s) = sTrue)
                    ELSE defaultValue,
                    r.logged)

\* getNumber(key, defaultValue)
getNumber(self, penv, key, defaultValue) ==
    LET r == getString(self, penv, key, Undefined)
    IN  IF r.outcome = "throw" THEN r
        ELSE Return(IF r.value # Undefined THEN parseFloat(r.value.s) ELSE defaultValue,
                    r.logged)

\* getArray(key, separator = ",", defaultValue)
getArray(self, penv, key, separator, defaultValue) ==
    LET sep == IF separator = Undefined THEN Str(sComma) ELSE separator
        r == getString(self, penv, key, Undefined)
    IN  IF r.outcome = "throw" THEN r
        ELSE Return(IF r.value # Undefined THEN split(r.value.s, sep.s) ELSE defaultValue,
                    r.logged)

ParseError(key) == [level |-> "error", what |-> "Error parsing JSON for", key |-> key]

SyntaxError == [t |-> "error", name |-> "SyntaxError"]

\* getObject without its try statement
getObjectNoCatch(self, penv, key, defaultValue) ==
    LET r == getString(self, penv, key, Undefined)
    IN  IF r.outcome = "throw" THEN r
        ELSE IF r.value = Undefined THEN Return(defaultValue, r.logged)
        ELSE LET parsed == JSONParse(r.value.s)
             IN  IF parsed.ok THEN Return(parsed.value, r.logged)
                 ELSE Throw(SyntaxError, r.logged)

\* getObject(key, defaultValue)
getObject(self, penv, key, defaultValue) ==
    LET r == getString(self, penv, key, Undefined)
    IN  IF r.outcome = "throw" THEN r
        ELSE IF r.value = Undefined THEN Return(defaultValue, r.logged)
        ELSE LET parsed == JSONParse(r.value.s)
             IN  IF parsed.ok THEN Return(parsed.value, r.logged)
                 ELSE Return(defaultValue, Append(r.logged, ParseError(key)))

\* the default of getOrThrow's second parameter
DefaultOptions == [throwError |-> Bool(TRUE)]

\* getOrThrow paying no attention to options.throwError
getOrThrowAlways(self, penv, propertyPath, options) ==
    LET r == get(self, penv, propertyPath, Undefined)
    IN  IF r.outcome = "throw" THEN r
        ELSE IF r.value = Undefined THEN Throw(NotFoundError(propertyPath), r.logged)
        ELSE Return(r.value, r.logged)

\* getOrThrow(propertyPath, options = { throwError: true })
getOrThrow(self, penv, propertyPath, options) ==
    LET opts == IF options = Undefined THEN DefaultOptions ELSE options
        r == get(self, penv, propertyPath, Undefined)
    IN  IF r.outcome = "throw" THEN r
        ELSE IF r.value = Undefined /\ Truthy(opts.throwError)
             THEN Throw(NotFoundError(propertyPath), r.logged)
        ELSE Return(r.value, r.logged)

\* line 124: module.exports = new EnvironmentVariables()
Construct ==
    /\ pc = "construct"
    /\ instance' = EnvironmentVariables(Undefined, processEnv)
    /\ envExported' = processEnv
    /\ pc' = "ready"
    /\ UNCHANGED <<processEnv, fs, console, lastCall, lastResult,
                   env0, loadName, loadOutcome>>

----------------------------------------------------------------------------
(* Calls on the exported instance *)

NoCall == [op |-> "none"]
NoResult == [outcome |-> "none"]

\* arguments the callers pass
Keys == {Str(sPort), Undefined}
Defaults == {Undefined, Str(sFallback)}
Separators == {Undefined, Str(sSemicolon)}
Options == {Undefined, [throwError |-> Bool(FALSE)]}

Untouched == <<pc, processEnv, fs, console, instance,
               env0, envExported, loadName, loadOutcome>>

\* get storing the default it falls back to
CallGetAssigning(key, defaultValue) ==
    /\ pc = "ready"
    /\ lastCall' = [op |-> "get", key |-> key, defaultValue |-> defaultValue]
    /\ lastResult' = get(instance, processEnv, key, defaultValue)
    /\ processEnv' =
          IF key.t = "string" /\ defaultValue.t = "string"
             /\ ~Truthy(Lookup(processEnv, EnvKey(instance, key)))
          THEN (EnvKey(instance, key) :> defaultValue.s) @@ processEnv
          ELSE processEnv
    /\ UNCHANGED <<pc, fs, console, instance, env0, envExported, loadName, loadOutcome>>

CallGet(key, defaultValue) ==
    /\ pc = "ready"
    /\ lastCall' = [op |-> "get", key |-> key, defaultValue |-> defaultValue]
    /\ lastResult' = get(instance, processEnv, key, defaultValue)
    /\ UNCHANGED Untouched

CallGetString(key, defaultValue) ==
    /\ pc = "ready"
    /\ lastCall' = [op |-> "getString", key |-> key, defaultValue |-> defaultValue]
    /\ lastResult' = getString(instance, processEnv, key, defaultValue)
    /\ UNCHANGED Untouched

CallGetBoolean(key, defaultValue) ==
    /\ pc = "ready"
    /\ lastCall' = [op |-> "getBoolean", key |-> key, defaultValue |-> defaultValue]
    /\ lastResult' = getBoolean(instance, processEnv, key, defaultValue)
    /\ UNCHANGED Untouched

CallGetNumber(key, defaultValue) ==
    /\ pc = "ready"
    /\ lastCall' = [op |-> "getNumber", key |-> key, defaultValue |-> defaultValue]
    /\ lastResult' = getNumber(instance, processEnv, key, defaultValue)
    /\ UNCHANGED Untouched

CallGetArray(key, separator, defaultValue) ==
    /\ pc = "ready"
    /\ lastCall' = [op |-> "getArray", key |-> key, separator |-> separator,
                    defaultValue |-> defaultValue]
    /\ lastResult' = getArray(instance, processEnv, key, separator, defaultValue)
    /\ UNCHANGED Untouched

CallGetObject(key, defaultValue) ==
    /\ pc = "ready"
    /\ lastCall' = [op |-> "getObject", key |-> key, defaultValue |-> defaultValue]
    /\ lastResult' = getObject(instance, processEnv, key, defaultValue)
    /\ UNCHANGED Untouched

CallGetOrThrow(propertyPath, options) ==
    /\ pc = "ready"
    /\ lastCall' = [op |-> "getOrThrow", key |-> propertyPath, options |-> options]
    /\ lastResult' = getOrThrow(instance, processEnv, propertyPath, options)
    /\ UNCHANGED Untouched

----------------------------------------------------------------------------
(* The environment the module is required in *)

\* values DEVELOPMENT_PORT may have before the module is required
EntryValues == {<<>>, sTrue, sTrueMixed, sFalseMixed, sOne, sNo, sYes, s3000,
                s12ab, sList, sBadJson, sObject, sArray}
FewEntryValues == {<<>>, s3000}

\* the tables that set k to one of vs, or do not set it
Entry(k, vs) == {<<>>} \cup {k :> v : v \in vs}

\* NODE_ENV: absent, or set to one of these
SelectorValues == {<<>>, Development, Production}

\* process.env before the module is required, DEVELOPMENT_PORT drawn from vs
Tables(vs) ==
    { sel @@ a @@ b @@ c :
        sel \in Entry(NODE_ENV, SelectorValues),
        a \in Entry(DEVELOPMENT_PORT, vs),
        b \in Entry(PRODUCTION_PORT, {s3000}),
        c \in Entry(DEVELOPMENT_port, {sTrue}) }

\* assignments a settings file is made of
FileAssignments ==
    { [key |-> NODE_ENV, value |-> Production],
      [key |-> DEVELOPMENT_PORT, value |-> s8080],
      [key |-> DEVELOPMENT_PORT, value |-> sTrue],
      [key |-> PRODUCTION_PORT, value |-> s8080] }

FileContents == UNION {[1..n -> FileAssignments] : n \in 0..MaxFileLen}

\* the directory holds no settings file, or .env.development
FileSystems == {<<>>} \cup [{EnvFile(Development)} -> FileContents]

FewFileSystems ==
    {<<>>, EnvFile(Development) :> <<[key |-> DEVELOPMENT_PORT, value |-> s8080]>>}

InitWith(tables, files) ==
    /\ pc = "announce"
    /\ processEnv \in tables
    /\ fs \in files
    /\ console = <<>>
    /\ instance = NotConstructed
    /\ lastCall = NoCall
    /\ lastResult = NoResult
    /\ env0 = processEnv
    /\ envExported = <<>>
    /\ loadName = <<>>
    /\ loadOutcome = "none"

Init ==
    \/ InitWith(Tables(EntryValues), FewFileSystems)
    \/ InitWith({t \in Tables(FewEntryValues) : DEVELOPMENT_port \notin DOMAIN t},
                FileSystems)

Next ==
    \/ Announce
    \/ LoadEnv
    \/ Construct
    \/ \E key \in Keys, d \in Defaults : CallGet(key, d)
    \/ \E key \in Keys, d \in Defaults : CallGetString(key, d)
    \/ \E key \in Keys, d \in Defaults : CallGetBoolean(key, d)
    \/ \E key \in Keys, d \in Defaults : CallGetNumber(key, d)
    \/ \E key \in Keys, sep \in Separators, d \in Defaults : CallGetArray(key, sep, d)
    \/ \E key \in Keys, d \in Defaults : CallGetObject(key, d)
    \/ \E key \in Keys, o \in Options : CallGetOrThrow(key, o)

Spec == Init /\ [][Next]_vars

----------------------------------------------------------------------------
TypeOK ==
    /\ pc \in {"announce", "load", "construct", "ready"}
    /\ loadOutcome \in {"none", "loaded", "returnsError", "throws"}

----------------------------------------------------------------------------
(* The specification's claims *)

Getters == {"get", "getString", "getBoolean", "getNumber", "getArray", "getObject"}
AllOps == Getters \cup {"getOrThrow"}

\* UPPERCASE(E) + "_" + UPPERCASE(K)
NamespacedKey(E, K) == toUpperCase(E) \o <<"_">> \o toUpperCase(K)

\* the latest call was one of ops and passed a string as its key
CalledWithString(ops) ==
    pc = "ready" /\ lastCall.op \in ops /\ lastCall.key.t = "string"

\* the namespaced key of the latest call
TheKey == NamespacedKey(instance.env.s, lastCall.key.s)

\* the namespaced entry of the latest call is present and is not the empty string
Stored == TheKey \in DOMAIN processEnv /\ processEnv[TheKey] # <<>>

\* what a call completes with on instance self and table penv
Perform(self, penv, call) ==
    CASE call.op = "get" -> get(self, penv, call.key, call.defaultValue)
      [] call.op = "getString" -> getString(self, penv, call.key, call.defaultValue)
      [] call.op = "getBoolean" -> getBoolean(self, penv, call.key, call.defaultValue)
      [] call.op = "getNumber" -> getNumber(self, penv, call.key, call.defaultValue)
      [] call.op = "getArray" ->
            getArray(self, penv, call.key, call.separator, call.defaultValue)
      [] call.op = "getObject" -> getObject(self, penv, call.key, call.defaultValue)
      [] call.op = "getOrThrow" -> getOrThrow(self, penv, call.key, call.options)

TableKeys == {NODE_ENV, DEVELOPMENT_PORT, PRODUCTION_PORT, DEVELOPMENT_port}

\* C1: every getter reads exactly one entry of process.env, the one under
\* UPPERCASE(E) + "_" + UPPERCASE(K) for the accessor's environment name E and
\* the requested (string) key K: the call completes as it would on the table
\* with every other entry removed, and as it would on the table with every
\* other entry set to another value.
C1_ReadsOnlyNamespacedEntry ==
    CalledWithString(AllOps) =>
        LET only == [k \in DOMAIN processEnv \cap {TheKey} |-> processEnv[k]]
            others == [k \in TableKeys \ {TheKey} |-> sNo]
        IN  /\ lastResult = Perform(instance, only, lastCall)
            /\ lastResult = Perform(instance, only @@ others, lastCall)

C1_Witness ==
    /\ pc = "ready"
    /\ lastCall = [op |-> "getNumber", key |-> Str(sPort), defaultValue |-> Undefined]
    /\ instance.env = Str(Production)
    /\ DOMAIN processEnv = TableKeys
    /\ processEnv[PRODUCTION_PORT] = s3000
    /\ processEnv[DEVELOPMENT_PORT] = sBadJson
    /\ lastResult.value = Num(3000)

\* C2: get(key, defaultValue) with a string key returns the value stored under
\* the namespaced key when that entry is present and not the empty string, and
\* defaultValue when the entry is absent or is the empty string.
C2_GetValueOrDefault ==
    CalledWithString({"get"}) =>
        /\ lastResult.outcome = "return"
        /\ lastResult.value =
              IF Stored THEN Str(processEnv[TheKey]) ELSE lastCall.defaultValue

C2_Witness ==
    /\ pc = "ready"
    /\ lastCall = [op |-> "get", key |-> Str(sPort), defaultValue |-> Str(sFallback)]
    /\ instance.env = Str(Development)
    /\ DEVELOPMENT_PORT \in DOMAIN processEnv
    /\ processEnv[DEVELOPMENT_PORT] = <<>>
    /\ lastResult.value = Str(sFallback)

\* C3: getOrThrow(key) with a string key and the default options throws an
\* error naming the requested key exactly when the namespaced entry is absent
\* or the empty string, and otherwise returns the stored value; with
\* options.throwError false it does not throw and returns undefined for an
\* absent or empty entry.
C3_GetOrThrow ==
    CalledWithString({"getOrThrow"}) =>
        /\ lastCall.options = Undefined =>
              /\ lastResult.outcome = "throw" <=> ~Stored
              /\ ~Stored => lastResult.value =
                                [t |-> "error", name |-> "Error", key |-> lastCall.key]
              /\ Stored => lastResult.value = Str(processEnv[TheKey])
        /\ lastCall.options = [throwError |-> Bool(FALSE)] =>
              /\ lastResult.outcome = "return"
              /\ lastResult.value = IF Stored THEN Str(processEnv[TheKey]) ELSE Undefined

C3_Witness ==
    /\ pc = "ready"
    /\ lastCall = [op |-> "getOrThrow", key |-> Str(sPort), options |-> Undefined]
    /\ instance.env = Str(Development)
    /\ DEVELOPMENT_PORT \in DOMAIN processEnv
    /\ processEnv[DEVELOPMENT_PORT] = <<>>
    /\ lastResult.outcome = "throw"
    /\ lastResult.value.key = Str(sPort)

\* C4: whatever the key, the default value and the table, a call to get,
\* getString, getBoolean, getNumber, getArray or getObject ends with a returned
\* value and never with an exception, also when the key is not a string.
C4_GettersNeverThrow ==
    (pc = "ready" /\ lastCall.op \in Getters) => lastResult.outcome = "return"

\* C5: getBoolean(key, defaultValue) with a string key returns true exactly
\* when the namespaced entry is a non-empty string whose lower-cased form is
\* "true", false for every other non-empty entry ("False", "1", "no", "yes"),
\* and defaultValue when the entry is absent or empty.
C5_GetBoolean ==
    CalledWithString({"getBoolean"}) =>
        /\ lastResult.outcome = "return"
        /\ ~Stored => lastResult.value = lastCall.defaultValue
        /\ Stored =>
              /\ lastResult.value \in {Bool(TRUE), Bool(FALSE)}
              /\ lastResult.value = Bool(TRUE) <=> toLowerCase(processEnv[TheKey]) = sTrue
              /\ processEnv[TheKey] \in {sTrue, sTrueMixed} => lastResult.value = Bool(TRUE)
              /\ processEnv[TheKey] \in {sFalseMixed, sOne, sNo, sYes}
                    => lastResult.value = Bool(FALSE)

C5_Witness ==
    /\ pc = "ready"
    /\ lastCall = [op |-> "getBoolean", key |-> Str(sPort), defaultValue |-> Undefined]
    /\ instance.env = Str(Development)
    /\ DEVELOPMENT_PORT \in DOMAIN processEnv
    /\ processEnv[DEVELOPMENT_PORT] = sTrueMixed
    /\ lastResult.value = Bool(TRUE)

\* C6: getObject(key, defaultValue) with a string key returns the parsed
\* structure when the namespaced entry is a non-empty well-formed JSON text,
\* and returns defaultValue when the entry is absent, empty or malformed
\* ("{not valid json"); in the malformed case it logs an error and does not
\* throw.
C6_GetObject ==
    CalledWithString({"getObject"}) =>
        /\ lastResult.outcome = "return"
        /\ ~Stored => lastResult.value = lastCall.defaultValue /\ lastResult.logged = <<>>
        /\ Stored =>
              LET text == processEnv[TheKey]
              IN  /\ JSONParse(text).ok =>
                        /\ lastResult.value = JSONParse(text).value
                        /\ lastResult.logged = <<>>
                  /\ ~JSONParse(text).ok =>
                        /\ lastResult.value = lastCall.defaultValue
                        /\ Len(lastResult.logged) = 1
                        /\ lastResult.logged[1].level = "error"
                  /\ text = sBadJson => lastResult.value = lastCall.defaultValue
                  /\ text = sObject => lastResult.value = Obj(<<"a">> :> Num(1))

C6_Witness ==
    /\ pc = "ready"
    /\ lastCall = [op |-> "getObject", key |-> Str(sPort), defaultValue |-> Str(sFallback)]
    /\ instance.env = Str(Development)
    /\ DEVELOPMENT_PORT \in DOMAIN processEnv
    /\ processEnv[DEVELOPMENT_PORT] = sBadJson
    /\ lastResult.outcome = "return"
    /\ lastResult.value = Str(sFallback)
    /\ Len(lastResult.logged) = 1

\* the load step has run
AfterLoad == pc \in {"construct", "ready"}

\* C7: the load step is additive: every key present in process.env before the
\* load still has its value after it (also when the file assigns it another
\* value, and also when its value is the empty string), and every key the file
\* assigns that was not present before is present with the file's value (the
\* last one the file assigns to it).
C7_LoadIsAdditive ==
    AfterLoad =>
        /\ \A k \in DOMAIN env0 : k \in DOMAIN processEnv /\ processEnv[k] = env0[k]
        /\ loadOutcome = "loaded" =>
              LET content == fs[EnvFile(loadName)]
              IN  \A i \in 1..Len(content) :
                     (/\ content[i].key \notin DOMAIN env0
                      /\ \A j \in (i + 1)..Len(content) : content[j].key # content[i].key)
                     => /\ content[i].key \in DOMAIN processEnv
                        /\ processEnv[content[i].key] = content[i].value

C7_Witness ==
    /\ pc = "ready"
    /\ loadOutcome = "loaded"
    /\ fs[EnvFile(Development)] = <<[key |-> DEVELOPMENT_PORT, value |-> s8080],
                                    [key |-> NODE_ENV, value |-> Production]>>
    /\ NODE_ENV \notin DOMAIN env0
    /\ DEVELOPMENT_PORT \in DOMAIN env0
    /\ env0[DEVELOPMENT_PORT] = <<>>
    /\ processEnv[DEVELOPMENT_PORT] = <<>>
    /\ processEnv[NODE_ENV] = Production

C9_SingleWriterThenReaders ==
    /\ [](instance # NotConstructed => (pc = "ready" /\ loadOutcome # "none"))
    /\ [][pc = "ready" => (processEnv' = processEnv /\ instance' = instance)]_vars
    /\ []((pc = "ready" /\ lastCall # NoCall) =>
             lastResult = Perform(instance, envExported, lastCall))

C9_Witness ==
    /\ pc = "ready"
    /\ loadOutcome = "loaded"
    /\ lastCall.op = "getOrThrow"
    /\ lastResult.outcome = "throw"
    /\ lastResult.value.name = "Error"
    /\ processEnv = envExported
    /\ processEnv # env0

\* C10: the environment name the singleton namespaces its lookup keys with is
\* the environment name the load step selected the settings file with.
C10_SameEnvironmentName ==
    pc = "ready" => instance.env = Str(loadName)

====
